---- MODULE Spec2Model ----
(***************************************************************************)
(* Model of package cstorage (src/cstorage.go): a key-value cache kept in  *)
(* a hash table and a doubly linked list, with a capacity, LRU eviction    *)
(* and a time-to-live per entry.                                           *)
(*                                                                         *)
(* The CStorage struct is the variable s, the nodes it points to live in   *)
(* the variable heap, and the wall clock read by time.Now() is now.        *)
(* Spec is the engine used by one caller at a time (each exported method   *)
(* one atomic step); SpecList is the same with a capacity of up to 3 and   *)
(* SpecZero with a capacity of 0. SpecConc is the engine used by several   *)
(* goroutines, a step being the taking of the mutex, a method body run     *)
(* under it, its release, or one of the reads Size and RemoveExpired make  *)
(* without it.                                                             *)
(***************************************************************************)
EXTENDS Integers, Sequences, FiniteSets, TLC

\* ------------------------------------------------------------------ bounds
\* The keys the callers use, and how far the clock runs.
NumKeys == 3
MaxTime == 2

Keys == 1..NumKeys
Values == {"a", "b"}
\* The configurations New is given: CStorageConfig{Ttl, Capacity}.
Capacities == {1, 2}
Ttls == {0, 1}
\* The configurations and the data of SpecList.
ListCapacities == {2, 3}
ListTtls == {1}
ListValues == {"a"}
\* The goroutines calling the engine in SpecConc, and the keys and the data
\* they use there.
Threads == {1, 2}
ConcKeys == {1, 2}
ConcValues == {"a"}
ConcTtls == {1}
\* The addresses a node can be allocated at: one per node the table can hold
\* and one per node a goroutine can still hold after its eviction.
NodeIds == 1..(NumKeys + Cardinality(Threads))

\* A nil pointer, the zero key of an unused node, a nil []byte.
NIL == 0
NoKey == 0
NoData == "nil"

VARIABLES
    s,       \* the CStorage struct: table, head, tail, size, config
    heap,    \* the node objects: heap[n] = [key, data, ttl, prev, next]
    now,     \* the value time.Now() returns
    panic,   \* TRUE once a nil pointer was dereferenced (the process is gone)
    last,    \* the last call made and what it returned
    touched, \* history: the keys in the table, most recently Get/Put first
    puts,    \* history: the keys in the table, most recently Put first
    written, \* history: per key in the table, the data and the time of its last Put
    lock,    \* s.mutex: the goroutine holding it, or NIL
    th       \* per goroutine: where it stands and its local variables

vars == <<s, heap, now, panic, last, touched, puts, written, lock, th>>

\* ------------------------------------------------------------- the memory
\* A node as allocated by &node{...} with no fields set.
BlankNode == [key |-> NoKey, data |-> NoData, ttl |-> 0, prev |-> NIL, next |-> NIL]

\* The machine state the methods work on: the struct, the heap, the panic flag.
Mem(st, hp, pn) == [s |-> st, heap |-> hp, panic |-> pn]

\* A nil pointer dereference: the goroutine panics where it stands.
Panic(m) == [m EXCEPT !.panic = TRUE]

\* Before as it would be with "not after" in its place.
NotAfter(t, u) == t <= u

\* time.Time.Before: strictly earlier.
Before(t, u) == t < u

\* delete(s.table, key)
MapDelete(table, key) == [k \in (DOMAIN table) \ {key} |-> table[k]]

\* s.table[key] = n
MapSet(table, key, n) == [k \in (DOMAIN table) \cup {key} |-> IF k = key THEN n ELSE table[k]]

Range(f) == {f[x] : x \in DOMAIN f}

\* The nodes the program can still reach: from the table, head and tail,
\* following prev and next.
RECURSIVE Closure(_, _)
Closure(hp, set) ==
    LET more == ({hp[n].prev : n \in set} \cup {hp[n].next : n \in set}) \ (set \cup {NIL})
    IN  IF more = {} THEN set ELSE Closure(hp, set \cup more)

\* The node pointers the goroutines hold in local variables (RemoveExpired's value).
Locals == {th[t].value : t \in Threads}

Reachable(m) == Closure(m.heap, (Range(m.s.table) \cup {m.s.head, m.s.tail} \cup Locals) \ {NIL})

\* The garbage collector: a node nothing reaches is gone.
Collect(m) ==
    LET live == Reachable(m)
    IN  [m EXCEPT !.heap = [n \in NodeIds |-> IF n \in live THEN m.heap[n] ELSE BlankNode]]

\* &node{key, data, ttl}: some address not in use. The address is the
\* allocator's choice; it is taken to be the key's own slot when that is free.
NewNodeId(m, key) ==
    LET free == NodeIds \ Reachable(m)
    IN  IF key \in free THEN key
        ELSE IF free # {} THEN CHOOSE n \in free : \A o \in free : n <= o
        ELSE NIL

\* ------------------------------------------------------------- the list
\* setHead: move node n to the head of the linked list.
setHead(m, n) ==
    IF n = NIL THEN m
    ELSE IF m.s.head = NIL THEN [m EXCEPT !.s.head = n, !.s.tail = n]
    ELSE IF m.s.head = n THEN m
    ELSE IF m.s.tail = n THEN
        LET t == m.heap[m.s.tail].prev
        IN  IF t = NIL THEN Panic([m EXCEPT !.s.tail = NIL])
            ELSE LET h1 == [m.heap EXCEPT ![t].next = NIL]
                     h2 == [h1 EXCEPT ![n].prev = NIL]
                     h3 == [h2 EXCEPT ![m.s.head].prev = n]
                     h4 == [h3 EXCEPT ![n].next = m.s.head]
                 IN  [m EXCEPT !.s.tail = t, !.heap = h4, !.s.head = n]
    ELSE
        LET p  == m.heap[n].prev
            x  == m.heap[n].next
            h1 == IF p # NIL THEN [m.heap EXCEPT ![p].next = x] ELSE m.heap
            h2 == IF x # NIL THEN [h1 EXCEPT ![x].prev = h1[n].prev] ELSE h1
            h3 == [h2 EXCEPT ![n].prev = NIL]
            h4 == [h3 EXCEPT ![m.s.head].prev = n]
            h5 == [h4 EXCEPT ![n].next = m.s.head]
        IN  [m EXCEPT !.heap = h5, !.s.head = n]

\* Unlink as it would be with the delete(s.table, n.key) forgotten.
UnlinkKeepsKey(m, hp, n) ==
    LET h1 == [hp EXCEPT ![n].prev = NIL]
        h2 == [h1 EXCEPT ![n].next = NIL]
    IN  [m EXCEPT !.heap = h2]

\* The last four lines of every branch of evict: unlink n and drop its key.
Unlink(m, hp, n) ==
    LET h1 == [hp EXCEPT ![n].prev = NIL]
        h2 == [h1 EXCEPT ![n].next = NIL]
    IN  [m EXCEPT !.heap = h2, !.s.table = MapDelete(m.s.table, hp[n].key)]

\* evict as it would be with n.next.prev = n.prev forgotten.
evictKeepsPrev(m, n) ==
    IF n = NIL THEN Panic(m)
    ELSE IF m.s.head = m.s.tail /\ m.s.head = n THEN
        Unlink([m EXCEPT !.s.head = NIL, !.s.tail = NIL], m.heap, n)
    ELSE IF m.s.head = n THEN
        LET h == m.heap[m.s.head].next
        IN  IF h = NIL THEN Panic([m EXCEPT !.s.head = NIL])
            ELSE Unlink([m EXCEPT !.s.head = h], [m.heap EXCEPT ![h].prev = NIL], n)
    ELSE IF m.s.tail = n THEN
        LET t == m.heap[m.s.tail].prev
        IN  IF t = NIL THEN Panic([m EXCEPT !.s.tail = NIL])
            ELSE Unlink([m EXCEPT !.s.tail = t], [m.heap EXCEPT ![t].next = NIL], n)
    ELSE
        LET p  == m.heap[n].prev
            x  == m.heap[n].next
            h1 == IF p # NIL THEN [m.heap EXCEPT ![p].next = x] ELSE m.heap
        IN  Unlink(m, h1, n)

\* evict: take node n out of the linked list and the hash map.
evict(m, n) ==
    IF n = NIL THEN Panic(m)
    ELSE IF m.s.head = m.s.tail /\ m.s.head = n THEN
        Unlink([m EXCEPT !.s.head = NIL, !.s.tail = NIL], m.heap, n)
    ELSE IF m.s.head = n THEN
        LET h == m.heap[m.s.head].next
        IN  IF h = NIL THEN Panic([m EXCEPT !.s.head = NIL])
            ELSE Unlink([m EXCEPT !.s.head = h], [m.heap EXCEPT ![h].prev = NIL], n)
    ELSE IF m.s.tail = n THEN
        LET t == m.heap[m.s.tail].prev
        IN  IF t = NIL THEN Panic([m EXCEPT !.s.tail = NIL])
            ELSE Unlink([m EXCEPT !.s.tail = t], [m.heap EXCEPT ![t].next = NIL], n)
    ELSE
        LET p  == m.heap[n].prev
            x  == m.heap[n].next
            h1 == IF p # NIL THEN [m.heap EXCEPT ![p].next = x] ELSE m.heap
            h2 == IF x # NIL THEN [h1 EXCEPT ![x].prev = h1[n].prev] ELSE h1
        IN  Unlink(m, h2, n)

\* s.size--
DecSize(m) == IF m.panic THEN m ELSE [m EXCEPT !.s.size = @ - 1]

\* ---------------------------------------------------------- the methods
\* What a method hands back: the memory after it, and its return values.
Ret(m, data, hit, n) == [m |-> m, data |-> data, hit |-> hit, n |-> n]

\* Get as it would be if an expired hit evicted the tail, not the node found.
GetEvictsTail(m, key, t) ==
    IF key \notin DOMAIN m.s.table THEN Ret(m, NoData, FALSE, 0)
    ELSE LET n == m.s.table[key]
         IN  IF Before(m.heap[n].ttl, t)
             THEN Ret(DecSize(evict(m, m.s.tail)), NoData, FALSE, 0)
             ELSE Ret(m, m.heap[n].data, TRUE, 0)

\* Get(key) at time t.
Get(m, key, t) ==
    IF key \notin DOMAIN m.s.table THEN Ret(m, NoData, FALSE, 0)
    ELSE LET n == m.s.table[key]
         IN  IF Before(m.heap[n].ttl, t)
             THEN Ret(DecSize(evict(m, n)), NoData, FALSE, 0)
             ELSE Ret(m, m.heap[n].data, TRUE, 0)

\* The loop as it would be with > for >=.
RECURSIVE EvictLoopLate(_)
EvictLoopLate(m) ==
    IF m.panic THEN m
    ELSE IF m.s.size > m.s.config.Capacity THEN EvictLoopLate(DecSize(evict(m, m.s.tail)))
    ELSE m

\* The loop as it would be evicting the head.
RECURSIVE EvictLoopHead(_)
EvictLoopHead(m) ==
    IF m.panic THEN m
    ELSE IF m.s.size >= m.s.config.Capacity THEN EvictLoopHead(DecSize(evict(m, m.s.head)))
    ELSE m

\* for s.size >= s.config.Capacity { s.evict(s.tail); s.size-- }
RECURSIVE EvictLoop(_)
EvictLoop(m) ==
    IF m.panic THEN m
    ELSE IF m.s.size >= m.s.config.Capacity THEN EvictLoop(DecSize(evict(m, m.s.tail)))
    ELSE m

\* The update as it would be with the expiry time left as it was.
PutUpdateKeepsTtl(m, key, data, ttl) ==
    LET n  == m.s.table[key]
        h1 == [m.heap EXCEPT ![n].data = data]
    IN  Ret(setHead([m EXCEPT !.heap = h1], n), NoData, TRUE, 0)

\* Put's branch for a key that is in the table: the update.
PutUpdate(m, key, data, ttl) ==
    LET n  == m.s.table[key]
        h1 == [m.heap EXCEPT ![n].data = data]
        h2 == [h1 EXCEPT ![n].ttl = ttl]
    IN  Ret(setHead([m EXCEPT !.heap = h2], n), NoData, TRUE, 0)

\* Put's branch for a key that is not in the table: make room, then insert.
PutInsert(m, key, data, ttl) ==
    LET m1 == EvictLoop(m)
        newNode == NewNodeId(m1, key)
        h1 == [m1.heap EXCEPT ![newNode] =
                   [key |-> key, data |-> data, ttl |-> ttl, prev |-> NIL, next |-> NIL]]
        m2 == [m1 EXCEPT !.heap = h1, !.s.table = MapSet(m1.s.table, key, newNode)]
        m3 == setHead(m2, newNode)
    IN  IF m1.panic THEN Ret(m1, NoData, FALSE, 0)
        ELSE IF m3.panic THEN Ret(m3, NoData, FALSE, 0)
        ELSE Ret([m3 EXCEPT !.s.size = @ + 1], NoData, FALSE, 0)

\* Put as it would be with an expiry check: an expired entry is dropped and
\* the key inserted as a new one.
PutExpiresFirst(m, key, data, t) ==
    LET ttl == t + m.s.config.Ttl
    IN  IF key \in DOMAIN m.s.table
        THEN IF Before(m.heap[m.s.table[key]].ttl, t)
             THEN PutInsert(DecSize(evict(m, m.s.table[key])), key, data, ttl)
             ELSE PutUpdate(m, key, data, ttl)
        ELSE PutInsert(m, key, data, ttl)

\* Put(key, data) at time t.
Put(m, key, data, t) ==
    LET ttl == t + m.s.config.Ttl
    IN  IF key \in DOMAIN m.s.table
        THEN PutUpdate(m, key, data, ttl)
        ELSE PutInsert(m, key, data, ttl)

\* Delete as it would be with the s.size-- forgotten.
DeleteKeepsSize(m, key) ==
    IF key \notin DOMAIN m.s.table THEN Ret(m, NoData, FALSE, 0)
    ELSE Ret(evict(m, m.s.table[key]), NoData, TRUE, 0)

\* Delete(key)
Delete(m, key) ==
    IF key \notin DOMAIN m.s.table THEN Ret(m, NoData, FALSE, 0)
    ELSE Ret(DecSize(evict(m, m.s.table[key])), NoData, TRUE, 0)

\* The loop as it would be with if for for.
ClearOnce(m) ==
    IF m.panic THEN m
    ELSE IF m.s.head # NIL THEN evict(m, m.s.tail)
    ELSE m

\* for s.head != nil { s.evict(s.tail) }
RECURSIVE ClearLoop(_)
ClearLoop(m) ==
    IF m.panic THEN m
    ELSE IF m.s.head # NIL THEN ClearLoop(evict(m, m.s.tail))
    ELSE m

\* Clear()
Clear(m) ==
    LET m1 == ClearLoop(m)
    IN  Ret(IF m1.panic THEN m1 ELSE [m1 EXCEPT !.s.size = 0], NoData, FALSE, 0)

\* Size()
Size(m) == Ret(m, NoData, FALSE, m.s.size)

\* Cap()
Cap(m) == Ret(m, NoData, FALSE, m.s.config.Capacity)

\* The loop body as it would be with count++ outside the if.
RemoveExpiredStepCountsAll(m, key, t) ==
    IF Before(m.heap[m.s.table[key]].ttl, t)
    THEN Ret(Delete(m, key).m, NoData, FALSE, 1)
    ELSE Ret(m, NoData, FALSE, 1)

\* The body of RemoveExpired's loop for one key the range produced at time t:
\* the memory after it and the addition to count.
RemoveExpiredStep(m, key, t) ==
    IF Before(m.heap[m.s.table[key]].ttl, t)
    THEN Ret(Delete(m, key).m, NoData, FALSE, 1)
    ELSE Ret(m, NoData, FALSE, 0)

\* RemoveExpired() with nobody else calling and the clock at t: the range
\* produces every key still in the table once (a key deleted before it is
\* reached is not produced), in an order of the runtime's choosing.
RECURSIVE RemoveExpiredLoop(_, _, _, _)
RemoveExpiredLoop(m, visited, count, t) ==
    LET left == (DOMAIN m.s.table) \ visited
    IN  IF m.panic \/ left = {} THEN Ret(m, NoData, FALSE, count)
        ELSE LET key == CHOOSE k \in left : TRUE
                 r   == RemoveExpiredStep(m, key, t)
             IN  RemoveExpiredLoop(r.m, visited \cup {key}, count + r.n, t)

RemoveExpired(m, t) == RemoveExpiredLoop(m, {}, 0, t)

\* ------------------------------------------------------------ observers
\* The nodes met from node n following next, at most fuel of them.
RECURSIVE Walk(_, _, _)
Walk(hp, n, fuel) ==
    IF n = NIL \/ fuel = 0 THEN <<>> ELSE <<n>> \o Walk(hp, hp[n].next, fuel - 1)

\* The recency list, head first: its nodes, and their keys.
ListNodes == Walk(heap, s.head, Cardinality(NodeIds) + 1)
ListKeys == LET nodes == ListNodes IN [i \in 1..Len(nodes) |-> heap[nodes[i]].key]
ListNodesNext == Walk(heap', s'.head, Cardinality(NodeIds) + 1)
ListKeysNext == LET nodes == ListNodesNext IN [i \in 1..Len(nodes) |-> heap'[nodes[i]].key]

\* The entry of key k, as the table holds it.
Entry(k) == heap[s.table[k]]
EntryNext(k) == heap'[s'.table[k]]

\* The keys whose entry is strictly past its expiry time.
Expired == {k \in DOMAIN s.table : Entry(k).ttl < now}

\* The place of key k in the recency list, the head being 1; 0 when no node
\* of the list holds it.
Pos(k) ==
    LET keys == ListKeys
    IN  IF \E i \in 1..Len(keys) : keys[i] = k
        THEN CHOOSE i \in 1..Len(keys) : keys[i] = k
        ELSE 0

\* ------------------------------------------------------------ the history
\* seq without the elements outside set.
Restrict(seq, set) == SelectSeq(seq, LAMBDA k : k \in set)

\* key becomes the most recently touched.
Touch(seq, key) == <<key>> \o SelectSeq(seq, LAMBDA k : k # key)

\* The record of a call: the method, its arguments, and what it returned
\* (the data of Get, the bool of Get, Put and Delete, the number of Size, Cap
\* and RemoveExpired); and, as history, what the call found: the place of
\* the key's node in the list, whether its entry was past its expiry time,
\* and the size.
Call(op, key, data, r) ==
    [op |-> op, key |-> key, data |-> data, ret |-> r.data, hit |-> r.hit, n |-> r.n,
     pos |-> Pos(key), stale |-> key \in Expired, size |-> s.size]

NoCall(op) ==
    [op |-> op, key |-> NoKey, data |-> NoData, ret |-> NoData, hit |-> FALSE, n |-> 0,
     pos |-> 0, stale |-> FALSE, size |-> s.size]

\* f without the keys outside set.
RestrictMap(f, set) == [k \in (DOMAIN f) \cap set |-> f[k]]

\* A goroutine that is in no call.
\* pc: where it stands; op: the method it is in; key: the key passed to
\* the method, or RemoveExpired's loop key; value: RemoveExpired's loop value; seen: the keys its range has produced; count: RemoveExpired's
\* count; removed (history): the entries its own Delete calls took out.
IdleThread ==
    [pc |-> "idle", op |-> "none", key |-> NoKey, value |-> NIL, seen |-> {},
     count |-> 0, removed |-> 0]

\* The memory a method leaves behind, after the collector has run.
Commit(r) ==
    LET m == Collect(r.m)
    IN  /\ s' = m.s
        /\ heap' = m.heap
        /\ panic' = m.panic

\* ------------------------------------------------------- one caller: Spec
\* New(config)
New(config) == [table |-> <<>>, head |-> NIL, tail |-> NIL, size |-> 0, config |-> config]

InitWith(caps, ttls) ==
    /\ \E c \in caps, d \in ttls : s = New([Ttl |-> d, Capacity |-> c])
    /\ heap = [n \in NodeIds |-> BlankNode]
    /\ now = 0
    /\ panic = FALSE
    /\ last = NoCall("New")
    /\ touched = <<>>
    /\ puts = <<>>
    /\ written = <<>>
    /\ lock = NIL
    /\ th = [t \in Threads |-> IdleThread]

Init == InitWith(Capacities, Ttls)

\* The clock as it would move with a timer in the engine that removes the
\* entries as they expire.
TickSweeps ==
    /\ ~panic
    /\ now < MaxTime
    /\ now' = now + 1
    /\ last' = NoCall("Tick")
    /\ LET r == RemoveExpired(Mem(s, heap, panic), now + 1)
       IN  /\ Commit(r)
           /\ touched' = Restrict(touched, DOMAIN r.m.s.table)
           /\ puts' = Restrict(puts, DOMAIN r.m.s.table)
           /\ written' = RestrictMap(written, DOMAIN r.m.s.table)
    /\ UNCHANGED <<lock, th>>

\* The clock moves on between calls.
Tick ==
    /\ ~panic
    /\ now < MaxTime
    /\ now' = now + 1
    /\ last' = NoCall("Tick")
    /\ UNCHANGED <<s, heap, panic, touched, puts, written, lock, th>>

GetCall(key) ==
    /\ ~panic
    /\ LET r == Get(Mem(s, heap, panic), key, now)
       IN  /\ Commit(r)
           /\ last' = Call("Get", key, NoData, r)
           /\ touched' = Restrict(IF r.hit THEN Touch(touched, key) ELSE touched, DOMAIN r.m.s.table)
           /\ puts' = Restrict(puts, DOMAIN r.m.s.table)
           /\ written' = RestrictMap(written, DOMAIN r.m.s.table)
    /\ UNCHANGED <<now, lock, th>>

PutCall(key, data) ==
    /\ ~panic
    /\ LET r == Put(Mem(s, heap, panic), key, data, now)
       IN  /\ Commit(r)
           /\ last' = Call("Put", key, data, r)
           /\ touched' = Restrict(Touch(touched, key), DOMAIN r.m.s.table)
           /\ puts' = Restrict(Touch(puts, key), DOMAIN r.m.s.table)
           /\ written' = RestrictMap(MapSet(written, key, [data |-> data, at |-> now]),
                                     DOMAIN r.m.s.table)
    /\ UNCHANGED <<now, lock, th>>

DeleteCall(key) ==
    /\ ~panic
    /\ LET r == Delete(Mem(s, heap, panic), key)
       IN  /\ Commit(r)
           /\ last' = Call("Delete", key, NoData, r)
           /\ touched' = Restrict(touched, DOMAIN r.m.s.table)
           /\ puts' = Restrict(puts, DOMAIN r.m.s.table)
           /\ written' = RestrictMap(written, DOMAIN r.m.s.table)
    /\ UNCHANGED <<now, lock, th>>

ClearCall ==
    /\ ~panic
    /\ LET r == Clear(Mem(s, heap, panic))
       IN  /\ Commit(r)
           /\ last' = Call("Clear", NoKey, NoData, r)
           /\ touched' = Restrict(touched, DOMAIN r.m.s.table)
           /\ puts' = Restrict(puts, DOMAIN r.m.s.table)
           /\ written' = RestrictMap(written, DOMAIN r.m.s.table)
    /\ UNCHANGED <<now, lock, th>>

SizeCall ==
    /\ ~panic
    /\ last' = Call("Size", NoKey, NoData, Size(Mem(s, heap, panic)))
    /\ UNCHANGED <<s, heap, now, panic, touched, puts, written, lock, th>>

CapCall ==
    /\ ~panic
    /\ last' = Call("Cap", NoKey, NoData, Cap(Mem(s, heap, panic)))
    /\ UNCHANGED <<s, heap, now, panic, touched, puts, written, lock, th>>

RemoveExpiredCall ==
    /\ ~panic
    /\ LET r == RemoveExpired(Mem(s, heap, panic), now)
       IN  /\ Commit(r)
           /\ last' = Call("RemoveExpired", NoKey, NoData, r)
           /\ touched' = Restrict(touched, DOMAIN r.m.s.table)
           /\ puts' = Restrict(puts, DOMAIN r.m.s.table)
           /\ written' = RestrictMap(written, DOMAIN r.m.s.table)
    /\ UNCHANGED <<now, lock, th>>

Next ==
    \/ Tick
    \/ \E key \in Keys : GetCall(key)
    \/ \E key \in Keys, data \in Values : PutCall(key, data)
    \/ \E key \in Keys : DeleteCall(key)
    \/ ClearCall
    \/ SizeCall
    \/ CapCall
    \/ RemoveExpiredCall

Spec == Init /\ [][Next]_vars

\* The same caller with an engine of capacity 0, which New does not refuse.
InitZero == InitWith({0}, Ttls)

SpecZero == InitZero /\ [][Next]_vars

\* The same caller with engines of capacity up to 3, where the list has
\* nodes between its head and its tail; one value is put.
InitList == InitWith(ListCapacities, ListTtls)

NextList ==
    \/ Tick
    \/ \E key \in Keys : GetCall(key)
    \/ \E key \in Keys, data \in ListValues : PutCall(key, data)
    \/ \E key \in Keys : DeleteCall(key)
    \/ ClearCall
    \/ SizeCall
    \/ CapCall
    \/ RemoveExpiredCall

SpecList == InitList /\ [][NextList]_vars

\* ------------------------------------------------ goroutines: SpecConc
\* The methods that take s.mutex on entry.
Locking == {"Get", "Put", "Delete", "Clear"}

\* Goroutine t calls a method. Get, Put, Delete and Clear start at
\* s.mutex.Lock(); Size, Cap and RemoveExpired take no lock.
Enter(t, op) ==
    /\ ~panic
    /\ th[t].pc = "idle"
    /\ th' = [th EXCEPT ![t] = [IdleThread EXCEPT
                                  !.op = op,
                                  !.pc = IF op \in Locking THEN "lock"
                                         ELSE IF op = "Size" THEN "size"
                                         ELSE IF op = "Cap" THEN "cap"
                                         ELSE "range"]]
    /\ UNCHANGED <<s, heap, now, panic, last, touched, puts, written, lock>>

\* s.mutex.Lock(). The key the caller passed is known from here on (Clear
\* has none, RemoveExpired passes its loop's key to Delete).
Lock(t, key) ==
    /\ ~panic
    /\ th[t].pc = "lock"
    /\ lock = NIL
    /\ IF th[t].op \in {"Get", "Put", "Delete"} THEN key \in ConcKeys ELSE key = th[t].key
    /\ lock' = t
    /\ th' = [th EXCEPT ![t].pc = "body", ![t].key = key]
    /\ UNCHANGED <<s, heap, now, panic, last, touched, puts, written>>

\* What the method body goroutine t stands in does to the memory, run now.
BodyResult(t, data) ==
    LET m == Mem(s, heap, panic)
    IN  CASE th[t].op = "Get" -> Get(m, th[t].key, now)
          [] th[t].op = "Put" -> Put(m, th[t].key, data, now)
          [] th[t].op = "Clear" -> Clear(m)
          [] OTHER -> Delete(m, th[t].key)

\* The memory after a method body run by goroutine t, which then stands at
\* the deferred s.mutex.Unlock().
Leave(t, r) ==
    /\ Commit(r)
    /\ th' = [th EXCEPT ![t].pc = "unlock",
                        ![t].removed = IF th[t].op = "RemoveExpired" /\ r.hit THEN @ + 1 ELSE @]
    /\ UNCHANGED <<now, last, touched, puts, written, lock>>

\* The body of Get, between Lock and Unlock.
GetBody(t) ==
    /\ ~panic
    /\ th[t].pc = "body" /\ th[t].op = "Get"
    /\ Leave(t, BodyResult(t, NoData))

\* The body of Put.
PutBody(t, data) ==
    /\ ~panic
    /\ th[t].pc = "body" /\ th[t].op = "Put"
    /\ Leave(t, BodyResult(t, data))

\* The body of Delete, called by the goroutine itself.
DeleteBody(t) ==
    /\ ~panic
    /\ th[t].pc = "body" /\ th[t].op = "Delete"
    /\ Leave(t, BodyResult(t, NoData))

\* The body of Delete, called by RemoveExpired with its loop's key.
SweepDeleteBody(t) ==
    /\ ~panic
    /\ th[t].pc = "body" /\ th[t].op = "RemoveExpired"
    /\ Leave(t, BodyResult(t, NoData))

\* The body of Clear.
ClearBody(t) ==
    /\ ~panic
    /\ th[t].pc = "body" /\ th[t].op = "Clear"
    /\ Leave(t, BodyResult(t, NoData))

\* defer s.mutex.Unlock(), and the return. Back in RemoveExpired the next
\* statement is count++, and the loop goes on.
Unlock(t) ==
    /\ ~panic
    /\ th[t].pc = "unlock"
    /\ lock' = NIL
    /\ th' = [th EXCEPT ![t] = IF th[t].op = "RemoveExpired"
                                THEN [@ EXCEPT !.pc = "range", !.key = NoKey, !.count = @ + 1]
                                ELSE IdleThread]
    /\ UNCHANGED <<s, heap, now, panic, last, touched, puts, written>>

\* Size: return s.size, with no lock taken.
SizeRead(t) ==
    /\ ~panic
    /\ th[t].pc = "size"
    /\ th' = [th EXCEPT ![t] = IdleThread]
    /\ UNCHANGED <<s, heap, now, panic, last, touched, puts, written, lock>>

\* Cap: return s.config.Capacity.
CapRead(t) ==
    /\ ~panic
    /\ th[t].pc = "cap"
    /\ th' = [th EXCEPT ![t] = IdleThread]
    /\ UNCHANGED <<s, heap, now, panic, last, touched, puts, written, lock>>

\* RemoveExpired: for key, value := range s.table, with no lock taken. The
\* range hands out a key of the table it has not handed out yet.
RangeNext(t, key) ==
    /\ ~panic
    /\ th[t].pc = "range"
    /\ key \in (DOMAIN s.table) \ th[t].seen
    /\ th' = [th EXCEPT ![t].pc = "check", ![t].key = key, ![t].value = s.table[key],
                        ![t].seen = @ \cup {key}]
    /\ UNCHANGED <<s, heap, now, panic, last, touched, puts, written, lock>>

\* RemoveExpired: the range is exhausted; return count.
RangeDone(t) ==
    /\ ~panic
    /\ th[t].pc = "range"
    /\ (DOMAIN s.table) \ th[t].seen = {}
    /\ th' = [th EXCEPT ![t] = IdleThread]
    /\ UNCHANGED <<s, heap, now, panic, last, touched, puts, written, lock>>

\* RemoveExpired: if value.ttl.Before(time.Now()) { s.Delete(key) ... }
CheckTtl(t) ==
    /\ ~panic
    /\ th[t].pc = "check"
    /\ th' = [th EXCEPT ![t].value = NIL,
                        ![t].pc = IF Before(heap[th[t].value].ttl, now) THEN "lock" ELSE "range",
                        ![t].key = IF Before(heap[th[t].value].ttl, now) THEN @ ELSE NoKey]
    /\ UNCHANGED <<s, heap, now, panic, last, touched, puts, written, lock>>

\* Goroutine t stands inside a method body, holding the lock, and the body
\* writes the struct or a node (the table, the list, the size, an entry).
Writing(t) ==
    /\ th[t].pc = "body" /\ lock = t
    /\ \E data \in ConcValues :
          BodyResult(t, data).m.s # s \/ BodyResult(t, data).m.heap # heap

\* Goroutine t stands inside a method body that inserts into or deletes from
\* the map.
WritingMap(t) ==
    /\ th[t].pc = "body" /\ lock = t
    /\ \E data \in ConcValues : BodyResult(t, data).m.s.table # s.table

\* Goroutine t stands at a read of the table, a node or the size that it
\* makes without the lock.
ReadingUnlocked(t) == th[t].pc \in {"size", "range", "check"} /\ lock # t

\* The range of RemoveExpired runs while another goroutine writes the map:
\* a data race, which the Go runtime may end with "fatal error: concurrent
\* map iteration and map write".
RangeRace(t) ==
    /\ ~panic
    /\ th[t].pc = "range"
    /\ \E u \in Threads \ {t} : WritingMap(u)
    /\ panic' = TRUE
    /\ UNCHANGED <<s, heap, now, last, touched, puts, written, lock, th>>

\* The clock moves on.
TickConc ==
    /\ ~panic
    /\ now < MaxTime
    /\ now' = now + 1
    /\ UNCHANGED <<s, heap, panic, last, touched, puts, written, lock, th>>

NextConc ==
    \/ TickConc
    \/ \E t \in Threads, op \in Locking \cup {"Size", "Cap", "RemoveExpired"} : Enter(t, op)
    \/ \E t \in Threads, key \in ConcKeys \cup {NoKey} : Lock(t, key)
    \/ \E t \in Threads : GetBody(t)
    \/ \E t \in Threads, data \in ConcValues : PutBody(t, data)
    \/ \E t \in Threads : DeleteBody(t)
    \/ \E t \in Threads : SweepDeleteBody(t)
    \/ \E t \in Threads : ClearBody(t)
    \/ \E t \in Threads : Unlock(t)
    \/ \E t \in Threads : SizeRead(t)
    \/ \E t \in Threads : CapRead(t)
    \/ \E t \in Threads, key \in ConcKeys : RangeNext(t, key)
    \/ \E t \in Threads : RangeDone(t)
    \/ \E t \in Threads : CheckTtl(t)
    \/ \E t \in Threads : RangeRace(t)

InitConc == InitWith(Capacities, ConcTtls)

SpecConc == InitConc /\ [][NextConc]_vars

\* ----------------------------------------------------------------- claims
\* C1: with capacity > 0, in every state reached by Get, Put, Delete, Clear
\* and RemoveExpired calls with the clock advancing in between, size equals
\* the number of keys in the table and the number of nodes reachable from
\* head, and the keys of the table are exactly the keys of the list's
\* nodes, each once, the table mapping each key to its own node.
C1_CountIndexList ==
    /\ s.size = Cardinality(DOMAIN s.table)
    /\ s.size = Len(ListNodes)
    /\ {ListKeys[i] : i \in 1..Len(ListKeys)} = DOMAIN s.table
    /\ \A i, j \in 1..Len(ListKeys) : ListKeys[i] = ListKeys[j] => i = j
    /\ \A i \in 1..Len(ListNodes) : s.table[ListKeys[i]] = ListNodes[i]

\* C1 witness: a full table of two, reached by an insertion that evicted.
C1_Witness ==
    /\ last.op = "Put" /\ ~last.hit
    /\ s.size = 2 /\ s.config.Capacity = 2
    /\ Cardinality(DOMAIN written) = 2
    /\ last.key \notin {1, 2}
    /\ now = MaxTime

\* C2: with capacity > 0, size <= capacity after every Put, and a Put of a
\* new key made when size = capacity leaves size = capacity.
C2_CapacityBound ==
    [][ last'.op = "Put" =>
          /\ s'.size <= s'.config.Capacity
          /\ (s.size = s.config.Capacity /\ ~last'.hit) => s'.size = s.config.Capacity
      ]_vars

\* C2 witness: the Put of the new key 3 has run on a cache of capacity 2,
\* which now holds key 3 and key 2, key 2 written earlier.
C2_Witness ==
    /\ last.op = "Put" /\ ~last.hit /\ last.key = 3
    /\ s.config.Capacity = 2 /\ s.size = 2
    /\ DOMAIN s.table = {2, 3}
    /\ written[2].at < written[3].at

\* No entry has reached its expiry time (the TTL has not elapsed).
AllLive == \A k \in DOMAIN s.table : now < Entry(k).ttl

\* C3: while no TTL has elapsed, the Put of a new key into a full cache evicts
\* exactly the key least recently touched by a Get or a Put (the
\* first-inserted key when nothing was touched again).
C3_EvictsLeastRecentlyTouched ==
    [][ (last'.op = "Put" /\ ~last'.hit /\ s.size = s.config.Capacity /\ AllLive) =>
          DOMAIN s'.table = ((DOMAIN s.table) \ {touched[Len(touched)]}) \cup {last'.key}
      ]_vars

\* C4, as claimed: for a key last written at time T with TTL d, Get at a time
\* t >= T + d returns found = false, and Get at t < T + d returns found = true
\* with the data of that last Put.
C4_ExpiryAtOrAfter ==
    [][ \A k \in DOMAIN written :
          (last'.op = "Get" /\ last'.key = k) =>
             /\ now >= written[k].at + s.config.Ttl => ~last'.hit
             /\ now < written[k].at + s.config.Ttl =>
                    (last'.hit /\ last'.ret = written[k].data)
      ]_vars

\* C4, amended: for a key last written at time T with TTL d, Get at a time
\* t > T + d returns found = false, and Get at t <= T + d (the boundary
\* t = T + d included) returns found = true with the data of that last Put.
C4_ExpiryStrictlyAfter ==
    [][ \A k \in DOMAIN written :
          (last'.op = "Get" /\ last'.key = k) =>
             /\ now > written[k].at + s.config.Ttl => ~last'.hit
             /\ now <= written[k].at + s.config.Ttl =>
                    (last'.hit /\ last'.ret = written[k].data)
      ]_vars

\* C4 witness: a Get at exactly T + d, d > 0, that found the key with the
\* data last written.
C4_Witness ==
    /\ last.op = "Get" /\ last.hit
    /\ last.key \in DOMAIN written
    /\ s.config.Ttl = 1
    /\ now = written[last.key].at + s.config.Ttl
    /\ last.ret = "b"

\* C5: a Put on a key that is in the table returns hit = true, leaves size
\* and the set of keys unchanged (also when size = capacity), stores the new
\* data and sets the expiry time to now + ttl.
C5_UpdateIsNotGrowth ==
    [][ (last'.op = "Put" /\ last'.key \in DOMAIN s.table) =>
          /\ last'.hit
          /\ s'.size = s.size
          /\ DOMAIN s'.table = DOMAIN s.table
          /\ EntryNext(last'.key).data = last'.data
          /\ EntryNext(last'.key).ttl = now + s.config.Ttl
      ]_vars

\* C5 witness: an update has run on a full cache of two, after the clock moved.
C5_Witness ==
    /\ last.op = "Put" /\ last.hit
    /\ s.size = 2 /\ s.config.Capacity = 2
    /\ Entry(last.key).data = "b"
    /\ Entry(last.key).ttl = now + s.config.Ttl
    /\ now > 0

\* C7: a Get on a key that is in the table and past its expiry time returns
\* found = false, removes that entry alone from the table and the list and
\* lowers size by one; every other entry, expired or not, stays, with its
\* data, its expiry time and its place in the order.
C7_LazySingleExpiry ==
    [][ (last'.op = "Get" /\ last'.key \in Expired) =>
          /\ ~last'.hit
          /\ s'.size = s.size - 1
          /\ DOMAIN s'.table = (DOMAIN s.table) \ {last'.key}
          /\ ListKeysNext = SelectSeq(ListKeys, LAMBDA k : k # last'.key)
          /\ \A k \in DOMAIN s'.table :
                EntryNext(k).data = Entry(k).data /\ EntryNext(k).ttl = Entry(k).ttl
      ]_vars

\* C7 witness: a Get has found its key expired in the middle of a list of
\* three and missed; the two others are still there, the tail an expired one.
C7_Witness ==
    /\ last.op = "Get" /\ ~last.hit
    /\ last.stale /\ last.pos = 2 /\ last.size = 3
    /\ last.key \notin DOMAIN s.table
    /\ s.size = 2
    /\ ListKeys[2] \in Expired

\* C8: RemoveExpired, with nobody else calling, run when k entries are
\* strictly past their expiry time, removes exactly those from the table and
\* the list, returns k, leaves Size() k lower and every other entry
\* retrievable; when every entry is expired it returns their number and
\* leaves the engine empty.
C8_RemoveExpiredCount ==
    [][ last'.op = "RemoveExpired" =>
          /\ DOMAIN s'.table = (DOMAIN s.table) \ Expired
          /\ last'.n = Cardinality(Expired)
          /\ Size(Mem(s', heap', panic')).n = Size(Mem(s, heap, panic)).n - Cardinality(Expired)
          /\ ListKeysNext = SelectSeq(ListKeys, LAMBDA k : k \notin Expired)
          /\ \A k \in (DOMAIN s.table) \ Expired :
                /\ Get(Mem(s', heap', panic'), k, now).hit
                /\ Get(Mem(s', heap', panic'), k, now).data = Entry(k).data
          /\ Expired = DOMAIN s.table =>
                (last'.n = s.size /\ s'.size = 0 /\ s'.head = NIL /\ s'.tail = NIL)
      ]_vars

\* C8 witness: RemoveExpired has removed one entry of three and left two.
C8_Witness ==
    /\ last.op = "RemoveExpired" /\ last.n = 1
    /\ last.size = 3
    /\ s.size = 2
    /\ Expired = {}

\* C9: Delete(key) returns true exactly when key was in the table, expired
\* or not; afterwards key is in neither the table nor the list, size is one
\* lower if it returned true and unchanged otherwise, and every other entry
\* keeps its data, its expiry time and its place in the order.
C9_Delete ==
    [][ last'.op = "Delete" =>
          /\ last'.hit = (last'.key \in DOMAIN s.table)
          /\ last'.key \notin DOMAIN s'.table
          /\ \A i \in 1..Len(ListKeysNext) : ListKeysNext[i] # last'.key
          /\ s'.size = IF last'.hit THEN s.size - 1 ELSE s.size
          /\ ListKeysNext = SelectSeq(ListKeys, LAMBDA k : k # last'.key)
          /\ \A k \in (DOMAIN s.table) \ {last'.key} :
                /\ k \in DOMAIN s'.table
                /\ EntryNext(k).data = Entry(k).data
                /\ EntryNext(k).ttl = Entry(k).ttl
      ]_vars

\* C9 witness: Delete has returned true for an expired key in the middle of
\* a list of three and left the two others, expired ones.
C9_Witness ==
    /\ last.op = "Delete" /\ last.hit
    /\ last.stale /\ last.pos = 2 /\ last.size = 3
    /\ s.size = 2
    /\ Expired = DOMAIN s.table

\* C10: after Clear, from any state, Size() = 0, head and tail are nil, Get
\* and Delete of every key report not found, and the engine is in the state
\* New(config) leaves it in; Clear on an empty engine changes nothing.
C10_Clear ==
    [][ last'.op = "Clear" =>
          /\ Size(Mem(s', heap', panic')).n = 0
          /\ s'.head = NIL /\ s'.tail = NIL
          /\ \A k \in Keys :
                /\ ~Get(Mem(s', heap', panic'), k, now).hit
                /\ ~Delete(Mem(s', heap', panic'), k).hit
          /\ s' = New(s.config)
          /\ heap' = [n \in NodeIds |-> BlankNode]
          /\ ~panic'
          /\ s = New(s.config) => (s' = s /\ heap' = heap)
      ]_vars

\* C10 witness: Clear has run after the clock ran out, on a cache of capacity 2.
C10_Witness ==
    /\ last.op = "Clear"
    /\ s.size = 0
    /\ s.config.Capacity = 2
    /\ now = MaxTime

\* C6: every public operation holds the engine's lock during every read or
\* write it makes of the table, the list or the size: in no interleaving does
\* one goroutine read or iterate them, the lock not held, while another
\* goroutine is inside a critical section that writes them.
C6_AccessUnderLock ==
    \A t, u \in Threads : (t # u /\ ReadingUnlocked(t)) => ~Writing(u)

\* C11: on an engine made with capacity 0, the Put of a key that is not in
\* the table (the first Put on the empty engine included) completes, no nil
\* pointer dereferenced, and leaves the table and the list agreeing: both
\* empty, size 0.
C11_ZeroCapacityPut ==
    [][ (last'.op = "Put" /\ s.config.Capacity = 0 /\ last'.key \notin DOMAIN s.table) =>
          /\ ~panic'
          /\ s'.size = 0
          /\ DOMAIN s'.table = {}
          /\ s'.head = NIL /\ s'.tail = NIL
      ]_vars

\* C12: with capacity > 0, a Put of a key that is not in the table returns
\* hit = false and evicts at most one entry: none when size < capacity, and
\* the tail of the list when size = capacity, expired or not and whatever
\* else is expired; the new entry becomes the head and every entry that
\* stays keeps its data, its expiry time and its place after it. The evicted
\* key is the one whose most recent Put is oldest (in any sequence of calls,
\* so in a sequence of Puts only).
C12_TailEvictionOnInsert ==
    [][ (last'.op = "Put" /\ last'.key \notin DOMAIN s.table) =>
          LET full == s.size = s.config.Capacity
              kept == IF full THEN SubSeq(ListKeys, 1, Len(ListKeys) - 1) ELSE ListKeys
          IN  /\ ~last'.hit
              /\ s.size <= s.config.Capacity
              /\ ListKeysNext = <<last'.key>> \o kept
              /\ DOMAIN s'.table = {last'.key} \cup {kept[i] : i \in 1..Len(kept)}
              /\ s'.head = s'.table[last'.key]
              /\ s'.size = IF full THEN s.size ELSE s.size + 1
              /\ \A i \in 1..Len(kept) :
                    /\ EntryNext(kept[i]).data = Entry(kept[i]).data
                    /\ EntryNext(kept[i]).ttl = Entry(kept[i]).ttl
              /\ full => /\ ListKeys[Len(ListKeys)] \notin DOMAIN s'.table
                         /\ ListKeys[Len(ListKeys)] = puts[Len(puts)]
      ]_vars

\* C12 witness: the Put of a new key has run on a full list and evicted one
\* entry; an expired entry, nearer the head than the evicted tail was, stays.
C12_Witness ==
    /\ last.op = "Put" /\ ~last.hit
    /\ last.size = s.config.Capacity /\ s.size = s.config.Capacity
    /\ ListKeys[1] = last.key
    /\ ListKeys[s.size] \in Expired

\* C13: a Get on a key that is in the table and before its expiry time
\* returns its data and true and moves its node to the head of the list,
\* size, the table and the order of the other entries staying as they were.
C13_GetMovesToHead ==
    [][ (last'.op = "Get" /\ last'.key \in DOMAIN s.table /\ now < Entry(last'.key).ttl) =>
          /\ last'.hit
          /\ last'.ret = Entry(last'.key).data
          /\ ListKeysNext = Touch(ListKeys, last'.key)
          /\ s'.size = s.size
          /\ s'.table = s.table
      ]_vars

\* C14: with capacity > 0 the list is a well-formed doubly linked list in
\* every reachable state: head is nil exactly when tail is nil and exactly
\* when size is 0; head.prev and tail.next are nil; n.next.prev = n for every
\* node n with a successor; and following next from head meets size nodes,
\* none twice, the last of them tail. (The states are those left by moves to
\* the head and by removals of the head, the tail, a middle node and the only
\* node.)
C14_WellFormedList ==
    LET nodes == ListNodes
    IN  /\ (s.head = NIL) = (s.tail = NIL)
        /\ (s.head = NIL) = (s.size = 0)
        /\ s.head # NIL => heap[s.head].prev = NIL
        /\ s.tail # NIL => heap[s.tail].next = NIL
        /\ \A n \in NodeIds : heap[n].next # NIL => heap[heap[n].next].prev = n
        /\ Len(nodes) = s.size
        /\ s.size > 0 => nodes[s.size] = s.tail
        /\ \A i, j \in 1..Len(nodes) : nodes[i] = nodes[j] => i = j

\* C14 witness: Delete has taken the middle node out of a list of three.
C14_Witness ==
    /\ last.op = "Delete" /\ last.hit
    /\ last.size = 3 /\ last.pos = 2
    /\ s.size = 2
    /\ s.head # s.tail

\* C15: expiry is lazy. Time passing changes neither the table, the list nor
\* the size. An expired entry stays in the table, with its data and its
\* expiry time, and is counted by Size(), through every step but a Get or a
\* Delete of its own key, a Clear, a RemoveExpired, and a Put of a new key
\* into a full engine whose tail it is; a Get, Put or Delete of another key
\* never removes it otherwise.
C15_LazyExpiry ==
    [][ /\ last'.op = "Tick" => (s' = s /\ heap' = heap)
        /\ last'.op = "Size" => last'.n = Cardinality(DOMAIN s.table)
        /\ \A k \in Expired :
              \/ /\ k \in DOMAIN s'.table
                 /\ last'.op = "Put" /\ last'.key = k
              \/ /\ k \in DOMAIN s'.table
                 /\ EntryNext(k).data = Entry(k).data
                 /\ EntryNext(k).ttl = Entry(k).ttl
                 /\ Size(Mem(s', heap', panic')).n = Cardinality(DOMAIN s'.table)
              \/ /\ k \notin DOMAIN s'.table
                 /\ \/ last'.op \in {"Get", "Delete"} /\ last'.key = k
                    \/ last'.op \in {"Clear", "RemoveExpired"}
                    \/ /\ last'.op = "Put" /\ last'.key \notin DOMAIN s.table
                       /\ s.size = s.config.Capacity
                       /\ k = ListKeys[Len(ListKeys)]
      ]_vars

\* C15 witness: the Put of another key, with room left, has run while an
\* entry was expired; the expired entry is still there and Size() counts it.
C15_Witness ==
    /\ last.op = "Put" /\ ~last.hit
    /\ last.size = 1 /\ s.size = 2
    /\ Expired # {}
    /\ last.key \notin Expired
    /\ Size(Mem(s, heap, panic)).n = 2

\* C19: a Put on a key whose entry is in the table and past its expiry time
\* makes no expiry check: it returns hit = true, leaves size as it was and
\* sets the data and the expiry time now + ttl, so that a Get of the key at
\* any time before now + ttl (ttl > 0) finds it, with the data just put.
C19_PutRevivesExpired ==
    [][ (last'.op = "Put" /\ last'.key \in Expired) =>
          /\ last'.hit
          /\ s'.size = s.size
          /\ DOMAIN s'.table = DOMAIN s.table
          /\ EntryNext(last'.key).ttl = now + s.config.Ttl
          /\ \A t \in now..(now + s.config.Ttl) :
                t < now + s.config.Ttl =>
                   /\ Get(Mem(s', heap', panic'), last'.key, t).hit
                   /\ Get(Mem(s', heap', panic'), last'.key, t).data = last'.data
      ]_vars

\* C19 witness: a Put has found its key expired, with ttl > 0, and returned
\* true; the entry holds the data put and is before its new expiry time.
C19_Witness ==
    /\ last.op = "Put" /\ last.hit /\ last.stale
    /\ s.config.Ttl > 0
    /\ last.data = "b"
    /\ Entry(last.key).data = "b"
    /\ now < Entry(last.key).ttl
    /\ s.size = last.size

\* The steps goroutine t can take inside a call it has made.
Proceed(t) ==
    \/ \E key \in ConcKeys \cup {NoKey} : Lock(t, key)
    \/ GetBody(t)
    \/ \E data \in ConcValues : PutBody(t, data)
    \/ DeleteBody(t)
    \/ SweepDeleteBody(t)
    \/ ClearBody(t)
    \/ Unlock(t)
    \/ SizeRead(t)
    \/ CapRead(t)
    \/ \E key \in ConcKeys : RangeNext(t, key)
    \/ RangeDone(t)
    \/ CheckTtl(t)

\* C16: with capacity > 0 and goroutines calling Get, Put, Delete, Clear,
\* Size and RemoveExpired concurrently, no reachable state is a deadlock:
\* while a call is under way some goroutine inside a call can take its next
\* step, so that under fair scheduling every call completes and the lock is
\* released after every acquisition.
C16_Progress ==
    (\E t \in Threads : th[t].pc # "idle") => ENABLED (\E u \in Threads : Proceed(u))

\* C17: RemoveExpired, run while other goroutines call Put, removes an entry
\* only if that entry is expired at the moment it is removed: its Delete
\* never takes out an entry whose expiry time a Put of the same key has
\* moved on since RemoveExpired tested it.
C17_SweepRemovesOnlyExpired ==
    [][ \A t \in Threads :
          ( /\ th[t].op = "RemoveExpired"
            /\ th[t].pc = "body" /\ th'[t].pc = "unlock"
            /\ th[t].key \in DOMAIN s.table
            /\ th[t].key \notin DOMAIN s'.table )
          => Before(Entry(th[t].key).ttl, now)
      ]_vars

\* C18: the number RemoveExpired returns is the number of entries its own
\* Delete calls took out of the table, also when other goroutines call Get,
\* Delete or Clear on the same keys meanwhile.
C18_CountsOwnRemovals ==
    \A t \in Threads :
        (th[t].op = "RemoveExpired" /\ th[t].pc = "range" /\ (DOMAIN s.table) \ th[t].seen = {})
        => th[t].count = th[t].removed

====
